---- MODULE Spec2Model ----
(***************************************************************************)
(* MentorLink (edu-link-docs): realtime list synchronisation of the        *)
(* documents table.                                                        *)
(*                                                                         *)
(*   StudentDashboard -> DocumentList  (channel 'documents-changes')       *)
(*   MentorDashboard  -> StudentList   (channel 'mentor-documents-changes')*)
(*                                                                         *)
(* The documents table, the change feed of the realtime publication and    *)
(* the channel registry of the shared supabase client are modelled next to *)
(* the React state of the four components.  A document row is abstracted   *)
(* to its id and a version number that every UPDATE of the row increases.  *)
(*                                                                         *)
(* Two further specifications share the variables:                         *)
(*   SpecReview  DocumentReviewDialog.handleReview, two mentors reviewing  *)
(*               one document of a student both are assigned to;           *)
(*   SpecFilter  DocumentList's filter criteria and the applyFilters       *)
(*               effect, over records with file name, category, status     *)
(*               and creation time;                                        *)
(*   SpecUpload  DocumentUploadDialog.handleSubmit, the storage bucket     *)
(*               and the documents rows it writes;                         *)
(*   SpecRoles   the user_roles table, its row-level security and the      *)
(*               admin's handleCreate, handleEdit and fetchUsers.          *)
(*                                                                         *)
(* Record constructors and enumerated sets list their fields and elements  *)
(* in the order TLC keeps them internally.  TLC sorts a value in place the *)
(* first time it compares it; a value written in that order is never       *)
(* rearranged while a second worker reads it.                              *)
(***************************************************************************)
EXTENDS Integers, Sequences, FiniteSets, TLC

\* ---------------------------------------------------------------- bounds
MaxIds == 2        \* document identities that can ever be created
MaxVer == 2        \* versions a row can go through (1 = as inserted)
MaxWrites == 3     \* inserts, updates and deletes of rows in one behaviour
MaxFeed == 1       \* change events committed but not yet broadcast
MaxHyd == 2        \* hydration fetches in flight at the same time
MaxChannels == 2   \* channel handles the client can hand out

Ids == 1..MaxIds
Handles == 1..MaxChannels

\* ------------------------------------------------------------ row values
\* Document (DocumentList.tsx 16-29), abstracted to identity and version.
Doc(i, v) == [id |-> i, ver |-> v]
\* data === null of a failed .single() select.
NoRow == [id |-> 0, ver |-> 0]
Docs == {Doc(i, v) : i \in Ids, v \in 1..MaxVer}

VARIABLES
  userRole,     \* Dashboard.tsx: role of the signed-in user (lines 33-34)
  pphase,       \* position inside the dashboard's fetchDashboardData
  loading,      \* dashboard state `loading`
  parentDocs,   \* StudentDashboard state `documents` (prop initialDocuments)
  students,     \* MentorDashboard state `students` is not empty
  created,      \* documents table: ids of the rows, newest first
  ver,          \* documents table: version of each row
  used,         \* ids ever inserted (gen_random_uuid never repeats one)
  feed,         \* supabase_realtime publication: events not yet broadcast
  channels,     \* channels registered on the supabase client
  mounted,      \* a DocumentList instance is mounted
  documents,    \* DocumentList state `documents` of the latest instance
  dlChannel,    \* `channel` of the DocumentList subscription effect, 0 = none
  hydrations,   \* handler invocations suspended at their hydration select
  slMounted,    \* a StudentList instance is mounted
  slChannel,    \* `channel` of the StudentList subscription effect, 0 = none
  slFetching,   \* a fetchStudentDocuments of StudentList is in flight
  reports,      \* what was passed to console.error / toast.error
  last,         \* history: last notification delivered to this instance, per id
  clean,        \* history: no hydration of this instance has failed
  lastOp,       \* history: the operation that produced this state
  rdoc,         \* documents row under review: status, feedback, reviewed_*
  now,          \* wall clock read by new Date()
  view,         \* StudentList: status of the row as last fetched, per mentor
  dialog,       \* reviewDialogOpen and the dialog's feedback/loading, per mentor
  inflight,     \* update request of a suspended handleReview, per mentor
  rlast,        \* history: the last step of a handleReview
  filteredDocuments,  \* DocumentList state `filteredDocuments`
  searchQuery,        \* DocumentList state `searchQuery`
  selectedCategory,   \* DocumentList state `selectedCategory`
  selectedStatus,     \* DocumentList state `selectedStatus`
  dateFrom,           \* DocumentList state `dateFrom`, 0 = undefined
  dateTo,             \* DocumentList state `dateTo`, 0 = undefined
  stale,              \* the applyFilters effect is scheduled and has not run
  dateFns,            \* the build's date-fns: "v2" or "v3" (isWithinInterval)
  signedIn,     \* useAuth(): `user` is not null
  upDialog,     \* DocumentUploadDialog state: open, loading, file, categoryId, description
  storage,      \* paths of the objects in the storage bucket 'documents'
  docPaths,     \* file_path of the rows of the documents table
  upCall,       \* a handleSubmit suspended at its upload or at its insert
  clock,        \* Date.now()
  uplog,        \* history: the last step of a handleSubmit
  authUsers,    \* ids of the rows of auth.users
  user_roles,   \* rows of public.user_roles
  creating,     \* a handleCreate suspended after its signUp
  users,        \* AdminUsers state `users`: id and role shown
  rolelog       \* history: the last statement run against user_roles

syncVars == <<userRole, pphase, loading, parentDocs, students, created, ver, used,
          feed, channels, mounted, documents, dlChannel, hydrations,
          slMounted, slChannel, slFetching, reports, last, clean, lastOp>>
reviewVars == <<rdoc, now, view, dialog, inflight, rlast>>
filterVars == <<filteredDocuments, searchQuery, selectedCategory,
                selectedStatus, dateFrom, dateTo, stale, dateFns>>
uploadVars == <<signedIn, upDialog, storage, docPaths, upCall, clock, uplog>>
roleVars == <<authUsers, user_roles, creating, users, rolelog>>
vars == <<syncVars, reviewVars, filterVars, uploadVars, roleVars>>

dbVars == <<created, ver, used>>
studentVars == <<parentDocs>>
mentorVars == <<students, slMounted, slChannel, slFetching>>
listVars == <<mounted, documents, dlChannel, hydrations, last, clean>>

\* ------------------------------------------------------------- helpers
RemoveAt(s, i) == SubSeq(s, 1, i - 1) \o SubSeq(s, i + 1, Len(s))

IdsOf(s) == {s[i].id : i \in 1..Len(s)}

Count(s, i) == Cardinality({k \in 1..Len(s) : s[k].id = i})

NoOp == [id |-> 0, op |-> "none", data |-> NoRow, before |-> <<>>, torn |-> FALSE]

Op(o, i, d, b, t) == [id |-> i, op |-> o, data |-> d, before |-> b,
                      torn |-> t]

\* .from('documents').select(...).order('created_at', {ascending: false})
Snapshot == [k \in 1..Len(created) |-> Doc(created[k], ver[created[k]])]

\* Rows written so far: every insert and update raised a version by one,
\* every delete took a row out of `created`.
Writes ==
  LET sum[S \in SUBSET Ids] ==
        IF S = {} THEN 0
        ELSE LET i == CHOOSE x \in S : TRUE IN ver[i] + sum[S \ {i}]
  IN sum[Ids] + Cardinality(used \ {created[k] : k \in 1..Len(created)})

\* .from('documents').select(...).eq('id', id).single()
SelectSingle(i) == IF i \in IdsOf(Snapshot) THEN Doc(i, ver[i]) ELSE NoRow

\* ------------------------------------------- DocumentList: list operations
\* Mutant: the seed is only taken when there is no local state yet.
initialize_keepLocal(prev, seed) == IF prev = <<>> THEN seed ELSE prev

\* useState(initialDocuments) and the effect of lines 55-58:
\* setDocuments(initialDocuments).
initialize(prev, seed) == seed

\* Mutant: the new row is appended instead of prepended.
applyInsert_append(prev, data) == prev \o <<data>>

\* INSERT branch, line 154: setDocuments((prev) => [data, ...prev]).
applyInsert(prev, data) == <<data>> \o prev

\* Mutant: an update of an id that is not listed inserts the row.
applyUpdate_upsert(prev, data) ==
  IF \E k \in 1..Len(prev) : prev[k].id = data.id
  THEN [k \in 1..Len(prev) |-> IF prev[k].id = data.id THEN data ELSE prev[k]]
  ELSE <<data>> \o prev

\* UPDATE branch, lines 165-167: prev.map(doc => doc.id === data.id ? data : doc).
applyUpdate(prev, data) ==
  [k \in 1..Len(prev) |-> IF prev[k].id = data.id THEN data ELSE prev[k]]

\* Mutant: only the first entry of the id is removed.
applyDelete_first(prev, i) ==
  IF \E k \in 1..Len(prev) : prev[k].id = i
  THEN LET f == CHOOSE k \in 1..Len(prev) :
                  prev[k].id = i /\ \A j \in 1..(k - 1) : prev[j].id # i
       IN SubSeq(prev, 1, f - 1) \o SubSeq(prev, f + 1, Len(prev))
  ELSE prev

\* DELETE branch, line 170: prev.filter(doc => doc.id !== payload.old.id).
applyDelete(prev, i) == SelectSeq(prev, LAMBDA d : d.id # i)

\* Mutant: the handler does not test `data` before using it.
applyHydrated_unchecked(prev, kind, data) ==
  IF kind = "INSERT" THEN <<data>> \o prev
  ELSE [k \in 1..Len(prev) |-> IF prev[k].id = data.id THEN data ELSE prev[k]]

\* Mutant: a hydrated row older than an entry of its id is discarded.
applyHydrated_newerOnly(prev, kind, data) ==
  IF data = NoRow THEN prev
  ELSE IF \E k \in 1..Len(prev) : prev[k].id = data.id /\ prev[k].ver > data.ver
  THEN prev
  ELSE IF kind = "INSERT" THEN <<data>> \o prev
  ELSE [k \in 1..Len(prev) |-> IF prev[k].id = data.id THEN data ELSE prev[k]]

\* What the handler does to `documents` once its select has returned `data`
\* (lines 153-155 and 164-168: nothing at all when data is null).
applyHydrated(prev, kind, data) ==
  IF data = NoRow THEN prev
  ELSE IF kind = "INSERT" THEN applyInsert(prev, data)
  ELSE applyUpdate(prev, data)

\* What the handler passes to console.error / toast.error when its select
\* returned `data`: the error of the select is never read (lines 147, 158).
hydrationReport(data) == {}

\* ------------------------------------------------- supabase client channels
FreeHandles == Handles \ {c.handle : c \in channels}

\* supabase.channel(topic).on(...).subscribe()
subscribe(chs, h, topic) == chs \cup {[handle |-> h, topic |-> topic]}

\* Mutant: the cleanup leaves the channel registered.
removeChannel_leak(chs, h) == chs

\* supabase.removeChannel(channel)
removeChannel(chs, h) == {c \in chs : c.handle # h}

Subscribed(h) == h # 0 /\ \E c \in channels : c.handle = h

\* ------------------------------------------------------------------ text
\* A string is the sequence of its characters.
Whitespace == {" ", "\t", "\n"}

\* String.prototype.trim
trim(s) ==
  LET keep == {i \in 1..Len(s) : s[i] \notin Whitespace}
  IN IF keep = {} THEN <<>>
     ELSE SubSeq(s, CHOOSE i \in keep : \A j \in keep : i <= j,
                    CHOOSE i \in keep : \A j \in keep : i >= j)

\* ------------------------------------------------- DocumentReviewDialog
\* Two mentors assigned to the same student (mentor_student_assignments is
\* UNIQUE(mentor_id, student_id) only), each with a dashboard of their own.
Mentors == {"m1", "m2"}
Actions == {"approve", "reject"}

MaxTime == 2              \* instants new Date() can return
MaxFeedbackLen == 1000    \* reviewSchema and the textarea's maxLength

\* Texts typed into the textarea; maxLength={1000} keeps every text the
\* textarea can hold within MaxFeedbackLen characters.
FeedbackTexts == {<<>>, <<" ", " ">>, <<" ", "o", "k", " ">>}

\* A nullable text column: <<>> is null, <<t>> the text t.
Null == <<>>
Some(t) == <<t>>
\* validatedData.feedback || null
orNull(t) == IF t = <<>> THEN Null ELSE Some(t)

\* The reviewed columns of a documents row as inserted.
PendingRow ==
  [status |-> "pending", feedback |-> Null, reviewed_by |-> "none",
   reviewed_at |-> 0]

\* Mutant: only the length is validated, whatever the action.
reviewSchema_lengthOnly(action, feedback) ==
  Len(trim(feedback)) <= MaxFeedbackLen

\* reviewSchema.parse({action, feedback: feedback.trim()}) succeeds.
reviewSchema(action, feedback) ==
  LET f == trim(trim(feedback))
  IN IF action = "reject"
     THEN Len(f) > 0 /\ Len(f) <= MaxFeedbackLen
     ELSE Len(f) <= MaxFeedbackLen

\* .update({status, feedback, reviewed_by, reviewed_at}).eq('id', document.id)
updateRow(row, action, feedback, by, at) ==
  [status |-> IF action = "approve" THEN "approved" ELSE "rejected",
   feedback |-> orNull(feedback),
   reviewed_by |-> by,
   reviewed_at |-> at]

NoRequest == [feedback |-> <<>>, action |-> "none", at |-> 0, detached |-> FALSE]

ClosedDialog == [loading |-> FALSE, feedback |-> <<>>, open |-> FALSE]

\* catch of a ZodError, then finally: the dialog keeps its text.
onInvalid(d) == [d EXCEPT !.loading = FALSE]

\* Mutant: the failure path runs the success path's state changes.
onFailure_asSuccess(d) == ClosedDialog

\* catch of the update's error, then finally setLoading(false).
onFailure(d) == [d EXCEPT !.loading = FALSE]

\* setFeedback(''), onOpenChange(false), finally setLoading(false).
onSuccess(d) == ClosedDialog

\* The toast shown and whether onReviewComplete() was called.
effects(result) ==
  [toast |-> IF result = "success" THEN "success" ELSE "error",
   complete |-> result = "success"]

NoStep ==
  [op |-> "none", before |-> PendingRow, action |-> "none", toast |-> "none",
   complete |-> FALSE, who |-> "none", dbefore |-> ClosedDialog]

Step(o, m, a, e) ==
  [op |-> o, before |-> rdoc, action |-> a, toast |-> e.toast,
   complete |-> e.complete, who |-> m, dbefore |-> dialog[m]]

ReviewIdle ==
  /\ rdoc = PendingRow
  /\ now = 1
  /\ view = [m \in Mentors |-> "pending"]
  /\ dialog = [m \in Mentors |-> ClosedDialog]
  /\ inflight = [m \in Mentors |-> NoRequest]
  /\ rlast = NoStep

FilterIdle ==
  /\ filteredDocuments = <<>>
  /\ searchQuery = <<>>
  /\ selectedCategory = "all"
  /\ selectedStatus = "all"
  /\ dateFrom = 0
  /\ dateTo = 0
  /\ stale = FALSE
  /\ dateFns = "v3"

\* ------------------------------------------------- DocumentUploadDialog
MaxFileSize == 10485760      \* 10 * 1024 * 1024 bytes
MaxDescriptionLen == 500     \* uploadSchema and the textarea's maxLength
MaxClock == 2                \* instants Date.now() can return

AllowedTypes == {"application/pdf", "image/jpeg", "image/png", "image/jpg"}

\* file === null
NoFile == [size |-> 0, type |-> "none"]

\* Files the picker can hand over (accept= is a hint of the picker only).
Files ==
  [size : {1, MaxFileSize, MaxFileSize + 1},
   type : {"application/pdf", "image/png", "text/plain"}]

CategoryIds == {"c1"}

\* Texts typed into the description; maxLength={500} keeps them within
\* MaxDescriptionLen characters.
Descriptions == {<<>>, <<" ", "o", "k", " ">>}

\* useState values of lines 57-62.
ClosedUpload ==
  [loading |-> FALSE, open |-> FALSE, file |-> NoFile, categoryId |-> "",
   description |-> <<>>]

NoCall == [stage |-> "none", path |-> 0]

NoUpStep ==
  [op |-> "none", toast |-> "none", complete |-> FALSE,
   dbefore |-> ClosedUpload, sbefore |-> {}, rbefore |-> {}, signed |-> FALSE]

UploadIdle ==
  /\ signedIn = TRUE
  /\ upDialog = ClosedUpload
  /\ storage = {}
  /\ docPaths = {}
  /\ upCall = NoCall
  /\ clock = 1
  /\ uplog = NoUpStep

\* ------------------------------------------------------------ user_roles
MaxUsers == 2     \* auth users that can sign up

AdminId == MaxUsers + 1
Uids == 1..MaxUsers
RoleNames == {"admin", "student", "mentor"}

RoleRow(u, r) == [user_id |-> u, role |-> r]

NoCreate == [role |-> "none", uid |-> 0, session |-> 0]

NoRoleStep ==
  [op |-> "none", before |-> {}, result |-> "none", role |-> "none",
   uid |-> 0, actor |-> 0, admin |-> FALSE]

\* One administrator exists (seeded outside the application).
RolesIdle ==
  /\ authUsers = {AdminId}
  /\ user_roles = {RoleRow(AdminId, "admin")}
  /\ creating = NoCreate
  /\ users = {}
  /\ rolelog = NoRoleStep

\* ------------------------------------------------------------------- Init
SyncIdle ==
  /\ pphase = IF userRole = "student" THEN "docs" ELSE "rest"
  /\ loading = TRUE
  /\ parentDocs = <<>>
  /\ students = FALSE
  /\ created = <<>>
  /\ ver = [i \in Ids |-> 0]
  /\ used = {}
  /\ feed = <<>>
  /\ channels = {}
  /\ mounted = FALSE
  /\ documents = <<>>
  /\ dlChannel = 0
  /\ hydrations = <<>>
  /\ slMounted = FALSE
  /\ slChannel = 0
  /\ slFetching = FALSE
  /\ reports = {}
  /\ last = [i \in Ids |-> "none"]
  /\ clean = TRUE
  /\ lastOp = NoOp

Init ==
  /\ userRole \in {"student", "mentor"}
  /\ SyncIdle
  /\ ReviewIdle
  /\ FilterIdle
  /\ UploadIdle
  /\ RolesIdle

\* ------------------------------------------------------ the documents table
\* DocumentUploadDialog.handleSubmit: insert of a new row (id by
\* gen_random_uuid, created_at = now()); the publication emits INSERT.
\* Ids are opaque, so the rows are numbered in the order of their creation.
RemoteInsert(i) ==
  /\ i \notin used
  /\ \A j \in Ids \ used : i <= j
  /\ Writes < MaxWrites
  /\ Len(feed) < MaxFeed
  /\ created' = <<i>> \o created
  /\ ver' = [ver EXCEPT ![i] = 1]
  /\ used' = used \cup {i}
  /\ feed' = Append(feed, [id |-> i, kind |-> "INSERT"])
  /\ lastOp' = NoOp
  /\ UNCHANGED <<reviewVars, filterVars, uploadVars, roleVars>>
  /\ UNCHANGED <<userRole, pphase, loading, studentVars, mentorVars, channels,
                 listVars, reports>>

\* DocumentReviewDialog.handleReview: update of an existing row; the
\* publication emits UPDATE.
RemoteUpdate(i) ==
  /\ i \in IdsOf(Snapshot)
  /\ ver[i] < MaxVer
  /\ Writes < MaxWrites
  /\ Len(feed) < MaxFeed
  /\ ver' = [ver EXCEPT ![i] = @ + 1]
  /\ feed' = Append(feed, [id |-> i, kind |-> "UPDATE"])
  /\ lastOp' = NoOp
  /\ UNCHANGED <<reviewVars, filterVars, uploadVars, roleVars>>
  /\ UNCHANGED <<userRole, pphase, loading, studentVars, mentorVars, channels,
                 listVars, reports, created, used>>

\* Rows disappear by cascade (category or user deleted by an admin); the
\* publication emits DELETE.
RemoteDelete(i) ==
  /\ i \in IdsOf(Snapshot)
  /\ Writes < MaxWrites
  /\ Len(feed) < MaxFeed
  /\ created' = SelectSeq(created, LAMBDA j : j # i)
  /\ feed' = Append(feed, [id |-> i, kind |-> "DELETE"])
  /\ lastOp' = NoOp
  /\ UNCHANGED <<reviewVars, filterVars, uploadVars, roleVars>>
  /\ UNCHANGED <<userRole, pphase, loading, studentVars, mentorVars, channels,
                 listVars, reports, ver, used>>

\* --------------------------------------------------------- StudentDashboard
\* fetchDashboardData up to its first await: setLoading(true) renders the
\* spinner instead of the page, which unmounts DocumentList; the cleanup of
\* its subscription effect (lines 176-178) removes its channel.
StudentFetchStart ==
  /\ userRole = "student"
  /\ pphase = "idle"
  /\ pphase' = "docs"
  /\ loading' = TRUE
  /\ mounted' = FALSE
  /\ channels' = removeChannel(channels, dlChannel)
  /\ dlChannel' = 0
  /\ lastOp' = NoOp
  /\ UNCHANGED <<reviewVars, filterVars, uploadVars, roleVars>>
  /\ UNCHANGED <<userRole, studentVars, mentorVars, dbVars, feed, documents,
                 hydrations, last, clean, reports>>

\* The documents select returns: if (docsData) setDocuments(docsData).
StudentFetchDocs(ok) ==
  /\ userRole = "student"
  /\ pphase = "docs"
  /\ pphase' = "rest"
  /\ parentDocs' = IF ok THEN Snapshot ELSE parentDocs
  /\ lastOp' = NoOp
  /\ UNCHANGED <<reviewVars, filterVars, uploadVars, roleVars>>
  /\ UNCHANGED <<userRole, loading, mentorVars, dbVars, feed, channels,
                 listVars, reports>>

\* The mentor select returns and finally runs setLoading(false): the page is
\* rendered again and a new DocumentList instance mounts with
\* initialDocuments = the dashboard's documents.  Its effects run in order:
\* lines 55-58 (initialize) and lines 133-175 (subscribe).  Handler
\* invocations of the previous instance that are still suspended hold the
\* setter of that instance: they can only write its state, which the new
\* instance replaces in the model, so the model stops following them here.
StudentFetchDone ==
  /\ userRole = "student"
  /\ pphase = "rest"
  /\ FreeHandles # {}
  /\ pphase' = "idle"
  /\ loading' = FALSE
  /\ mounted' = TRUE
  /\ documents' = initialize(documents, parentDocs)
  /\ LET h == CHOOSE x \in FreeHandles : \A y \in FreeHandles : x <= y
     IN /\ channels' = subscribe(channels, h, "documents-changes")
        /\ dlChannel' = h
  /\ hydrations' = <<>>
  /\ last' = [i \in Ids |-> "none"]
  /\ clean' = TRUE
  /\ lastOp' = Op("initialize", 0, NoRow, documents, FALSE)
  /\ UNCHANGED <<reviewVars, filterVars, uploadVars, roleVars>>
  /\ UNCHANGED <<userRole, studentVars, mentorVars, dbVars, feed, reports>>

\* ---------------------------------------------------------- MentorDashboard
\* fetchDashboardData up to its first await: setLoading(true) unmounts
\* StudentList; the cleanup of its subscription effect (part_001 72-74)
\* removes its channel if the effect had made one.
MentorFetchStart ==
  /\ userRole = "mentor"
  /\ pphase = "idle"
  /\ pphase' = "rest"
  /\ loading' = TRUE
  /\ slMounted' = FALSE
  /\ channels' = removeChannel(channels, slChannel)
  /\ slChannel' = 0
  /\ lastOp' = NoOp
  /\ UNCHANGED <<reviewVars, filterVars, uploadVars, roleVars>>
  /\ UNCHANGED <<userRole, studentVars, students, slFetching, dbVars, feed,
                 listVars, reports>>

\* StudentList subscription effect (part_001 52-75) for a students prop that
\* is empty (early return, no channel) or not.
slSubscribe(chs, h, nonEmpty) ==
  IF nonEmpty THEN subscribe(chs, h, "mentor-documents-changes") ELSE chs

\* setStudents(...) and finally setLoading(false): a new StudentList mounts.
\* Effect 44-50 starts fetchStudentDocuments when there are students.
MentorFetchDone(nonEmpty) ==
  /\ userRole = "mentor"
  /\ pphase = "rest"
  /\ FreeHandles # {}
  /\ pphase' = "idle"
  /\ loading' = FALSE
  /\ students' = nonEmpty
  /\ slMounted' = TRUE
  /\ slFetching' = (slFetching \/ nonEmpty)
  /\ LET h == CHOOSE x \in FreeHandles : \A y \in FreeHandles : x <= y
     IN /\ channels' = slSubscribe(channels, h, nonEmpty)
        /\ slChannel' = IF nonEmpty THEN h ELSE 0
  /\ lastOp' = NoOp
  /\ UNCHANGED <<reviewVars, filterVars, uploadVars, roleVars>>
  /\ UNCHANGED <<userRole, studentVars, dbVars, feed, listVars, reports>>

\* fetchStudentDocuments returns (part_001 77-124); a failure is logged and
\* toasted.
SLFetchResolve(ok) ==
  /\ slFetching
  /\ slFetching' = FALSE
  /\ reports' = IF ok THEN reports
                ELSE reports \cup {"Error fetching student documents"}
  /\ lastOp' = NoOp
  /\ UNCHANGED <<reviewVars, filterVars, uploadVars, roleVars>>
  /\ UNCHANGED <<userRole, pphase, loading, studentVars, students, slMounted,
                 slChannel, dbVars, feed, channels, listVars>>

\* ------------------------------------------------------ the realtime feed
\* The next event is broadcast to the channels subscribed at this moment.
\* DocumentList handler (lines 144-172): INSERT and UPDATE suspend at the
\* hydration select; DELETE filters at once.  StudentList handler (part_001
\* 65-68): fetchStudentDocuments().
Deliver ==
  /\ feed # <<>>
  /\ LET e == Head(feed)
     IN /\ feed' = Tail(feed)
        /\ IF Subscribed(dlChannel)
           THEN /\ last' = [last EXCEPT ![e.id] = e.kind]
                /\ IF e.kind = "DELETE"
                   THEN /\ documents' = applyDelete(documents, e.id)
                        /\ lastOp' = Op("DELETE", e.id, NoRow, documents, FALSE)
                        /\ UNCHANGED hydrations
                   ELSE /\ Len(hydrations) < MaxHyd
                        /\ hydrations' = Append(hydrations,
                             [id |-> e.id, data |-> NoRow, kind |-> e.kind,
                              phase |-> "issued"])
                        /\ lastOp' = NoOp
                        /\ UNCHANGED documents
           ELSE /\ lastOp' = NoOp
                /\ UNCHANGED <<documents, hydrations, last>>
        /\ slFetching' = (slFetching \/ Subscribed(slChannel))
  /\ UNCHANGED <<reviewVars, filterVars, uploadVars, roleVars>>
  /\ UNCHANGED <<userRole, pphase, loading, studentVars, students, slMounted,
                 slChannel, dbVars, channels, mounted, dlChannel, clean,
                 reports>>

\* The hydration select of a suspended handler is executed by the server:
\* .single() yields the row as it is now, or null (row gone, or the request
\* failed).
HydrateRead(k, ok) ==
  /\ k \in 1..Len(hydrations)
  /\ hydrations[k].phase = "issued"
  /\ hydrations' = [hydrations EXCEPT ![k].phase = "read",
                      ![k].data = IF ok THEN SelectSingle(hydrations[k].id)
                                  ELSE NoRow]
  /\ lastOp' = NoOp
  /\ UNCHANGED <<reviewVars, filterVars, uploadVars, roleVars>>
  /\ UNCHANGED <<userRole, pphase, loading, studentVars, mentorVars, dbVars,
                 feed, channels, mounted, documents, dlChannel, last, clean,
                 reports>>

\* The handler resumes with `data` (lines 153-155, 164-168) and calls the
\* setDocuments of its instance; nothing in the handler looks at whether the
\* subscription was torn down meanwhile.
HydrateResolve(k) ==
  /\ k \in 1..Len(hydrations)
  /\ hydrations[k].phase = "read"
  /\ LET h == hydrations[k]
     IN /\ documents' = applyHydrated(documents, h.kind, h.data)
        /\ reports' = reports \cup hydrationReport(h.data)
        /\ clean' = (clean /\ h.data # NoRow)
        /\ lastOp' = Op(h.kind, h.id, h.data, documents, ~mounted)
  /\ hydrations' = RemoveAt(hydrations, k)
  /\ UNCHANGED <<reviewVars, filterVars, uploadVars, roleVars>>
  /\ UNCHANGED <<userRole, pphase, loading, studentVars, mentorVars, dbVars,
                 feed, channels, mounted, dlChannel, last>>

\* ------------------------------------------------------------------- Next
Next ==
  \/ \E i \in Ids : RemoteInsert(i)
  \/ \E i \in Ids : RemoteUpdate(i)
  \/ \E i \in Ids : RemoteDelete(i)
  \/ StudentFetchStart
  \/ \E ok \in BOOLEAN : StudentFetchDocs(ok)
  \/ StudentFetchDone
  \/ MentorFetchStart
  \/ \E nonEmpty \in BOOLEAN : MentorFetchDone(nonEmpty)
  \/ \E ok \in BOOLEAN : SLFetchResolve(ok)
  \/ Deliver
  \/ \E k \in 1..MaxHyd, ok \in BOOLEAN : HydrateRead(k, ok)
  \/ \E k \in 1..MaxHyd : HydrateResolve(k)

Spec == Init /\ [][Next]_vars

\* ============================================= review of a pending document
\* StudentList.fetchStudentDocuments (78-124): setLoading(true) takes the
\* list and the dialog off the screen, the select brings the row's current
\* status, setLoading(false) renders them again.  reviewDialogOpen and
\* selectedDocument are state of StudentList and survive; the dialog's own
\* feedback and loading start over, and a handleReview suspended in the old
\* dialog instance can no longer set them.
RefreshView(m) ==
  /\ view' = [view EXCEPT ![m] = rdoc.status]
  /\ dialog' = [dialog EXCEPT ![m] = [loading |-> FALSE, feedback |-> <<>>,
                                      open |-> dialog[m].open]]
  /\ inflight' = [inflight EXCEPT ![m] =
                    IF inflight[m] = NoRequest THEN NoRequest
                    ELSE [inflight[m] EXCEPT !.detached = TRUE]]
  /\ <<view, dialog, inflight>> # <<view', dialog', inflight'>>
  /\ rlast' = NoStep
  /\ UNCHANGED <<rdoc, now, syncVars, filterVars,
                 uploadVars, roleVars>>

\* StudentList.handleReviewClick (126-129); the Review button is rendered
\* for a row whose fetched status is 'pending' (216-236).
OpenDialog(m) ==
  /\ view[m] = "pending"
  /\ ~dialog[m].open
  /\ dialog' = [dialog EXCEPT ![m].open = TRUE]
  /\ rlast' = NoStep
  /\ UNCHANGED <<rdoc, now, view, inflight, syncVars, filterVars,
                 uploadVars, roleVars>>

\* Textarea onChange (246), disabled while loading.
TypeFeedback(m, t) ==
  /\ dialog[m].open
  /\ ~dialog[m].loading
  /\ t # dialog[m].feedback
  /\ dialog' = [dialog EXCEPT ![m].feedback = t]
  /\ rlast' = NoStep
  /\ UNCHANGED <<rdoc, now, view, inflight, syncVars, filterVars,
                 uploadVars, roleVars>>

\* Dialog onOpenChange(false): Escape, the overlay or Cancel.
CloseDialog(m) ==
  /\ dialog[m].open
  /\ dialog' = [dialog EXCEPT ![m].open = FALSE]
  /\ rlast' = NoStep
  /\ UNCHANGED <<rdoc, now, view, inflight, syncVars, filterVars,
                 uploadVars, roleVars>>

\* handleReview (73-117) up to its await: validation, setLoading(true) and
\* the update request.  The mentor is signed in (the dashboard is rendered
\* for a signed-in user), so the guard of lines 74-77 passes.  The Approve
\* and Reject buttons are disabled while loading; one request per mentor is
\* outstanding at a time.
handleReview(m, action) ==
  /\ dialog[m].open
  /\ ~dialog[m].loading
  /\ inflight[m] = NoRequest
  /\ IF reviewSchema(action, dialog[m].feedback)
     THEN /\ dialog' = [dialog EXCEPT ![m].loading = TRUE]
          /\ inflight' = [inflight EXCEPT ![m] =
                            [feedback |-> trim(trim(dialog[m].feedback)),
                             action |-> action, at |-> now,
                             detached |-> FALSE]]
          /\ rlast' = Step("issued", m, action, [toast |-> "none", complete |-> FALSE])
     ELSE /\ dialog' = [dialog EXCEPT ![m] = onInvalid(dialog[m])]
          /\ inflight' = inflight
          /\ rlast' = Step("invalid", m, action, effects("invalid"))
  /\ UNCHANGED <<rdoc, now, view, syncVars, filterVars,
                 uploadVars, roleVars>>

\* The update reaches the table and handleReview resumes: lines 98-106 when
\* it succeeded, the catch of 107-114 when it did not, then finally.
ReviewResolve(m, ok) ==
  LET r == inflight[m] IN
  /\ r # NoRequest
  /\ inflight' = [inflight EXCEPT ![m] = NoRequest]
  /\ IF ok
     THEN /\ rdoc' = updateRow(rdoc, r.action, r.feedback, m, r.at)
          /\ dialog' = [dialog EXCEPT ![m] =
                          IF r.detached THEN [dialog[m] EXCEPT !.open = FALSE]
                          ELSE onSuccess(dialog[m])]
          /\ rlast' = Step("updated", m, r.action, effects("success"))
     ELSE /\ rdoc' = rdoc
          /\ dialog' = [dialog EXCEPT ![m] =
                          IF r.detached THEN dialog[m]
                          ELSE onFailure(dialog[m])]
          /\ rlast' = Step("failed", m, r.action, effects("failure"))
  /\ UNCHANGED <<now, view, syncVars, filterVars,
                 uploadVars, roleVars>>

\* Time passes.
Tick ==
  /\ now < MaxTime
  /\ now' = now + 1
  /\ rlast' = NoStep
  /\ UNCHANGED <<rdoc, view, dialog, inflight, syncVars, filterVars,
                 uploadVars, roleVars>>

InitReview ==
  /\ userRole = "mentor"
  /\ SyncIdle
  /\ ReviewIdle
  /\ FilterIdle
  /\ UploadIdle
  /\ RolesIdle

NextReview ==
  \/ \E m \in Mentors : RefreshView(m)
  \/ \E m \in Mentors : OpenDialog(m)
  \/ \E m \in Mentors, t \in FeedbackTexts : TypeFeedback(m, t)
  \/ \E m \in Mentors : CloseDialog(m)
  \/ \E m \in Mentors, action \in Actions : handleReview(m, action)
  \/ \E m \in Mentors, ok \in BOOLEAN : ReviewResolve(m, ok)
  \/ Tick

SpecReview == InitReview /\ [][NextReview]_vars

\* ==================================================== DocumentList: filters
MaxDocs == 2      \* entries the documents collection can hold

\* An instant is a half day: day d starts at 2*d, its noon is 2*d + 1.
\* The calendar's onSelect hands over the start of the selected day; the
\* days picked here are day 1 and day 2.
Dates == {2, 4}

\* Rows of the documents table with the name of their category.
Rows ==
  { [id |-> 1, status |-> "pending",
     file_name |-> <<"R","e","p","o","r","t",".","p","d","f">>,
     cat |-> "Reports", created_at |-> 3],
    [id |-> 1, status |-> "approved",
     file_name |-> <<"R","e","p","o","r","t",".","p","d","f">>,
     cat |-> "Reports", created_at |-> 3],
    [id |-> 2, status |-> "approved",
     file_name |-> <<"l","o","g",".","t","x","t">>,
     cat |-> "Notes", created_at |-> 4] }

\* StudentDashboard's select('*, category:document_categories(name,
\* description)'): the category arrives under the alias `category`.
seeded(r) ==
  [id |-> r.id, status |-> r.status, file_name |-> r.file_name,
   created_at |-> r.created_at, category |-> r.cat,
   document_categories |-> "undefined"]

\* The handler's select('*, document_categories(name)').
hydrated(r) ==
  [id |-> r.id, status |-> r.status, file_name |-> r.file_name,
   created_at |-> r.created_at, category |-> "undefined",
   document_categories |-> r.cat]

\* initialDocuments: what the dashboard fetched, newest first.
Seeds(rows) ==
  {<<>>} \cup {<<seeded(r)>> : r \in rows}
         \cup {<<seeded(p[1]), seeded(p[2])>> :
                 p \in {q \in rows \X rows :
                          q[1].id # q[2].id /\ q[1].created_at > q[2].created_at}}

Queries ==
  {<<>>, <<" ">>, <<"L","O","G">>, <<"l","o","g"," ">>,
   <<"r","e","p","o","r","t">>}
CategoryNames == {"Reports", "Notes"}
Statuses == {"pending", "approved", "rejected"}

Uppers == <<"A","B","C","D","E","F","G","H","I","J","K","L","M",
            "N","O","P","Q","R","S","T","U","V","W","X","Y","Z">>
Lowers == <<"a","b","c","d","e","f","g","h","i","j","k","l","m",
            "n","o","p","q","r","s","t","u","v","w","x","y","z">>

\* String.prototype.toLowerCase
toLowerCase(s) ==
  [k \in 1..Len(s) |->
     IF \E i \in 1..26 : Uppers[i] = s[k]
     THEN Lowers[CHOOSE i \in 1..26 : Uppers[i] = s[k]]
     ELSE s[k]]

\* String.prototype.includes
includes(s, q) ==
  \E i \in 0..(Len(s) - Len(q)) : SubSeq(s, i + 1, i + Len(q)) = q

\* date-fns isWithinInterval where it returns: v3 orders the two bounds,
\* v2 returns for start <= end only.
isWithinInterval(date, start, end) ==
  LET lo == IF start <= end THEN start ELSE end
      hi == IF start <= end THEN end ELSE start
  IN date >= lo /\ date <= hi

\* Mutant: the text is compared as typed, without folding the case.
textStage_caseSensitive(docs, query) ==
  IF trim(query) # <<>>
  THEN SelectSeq(docs, LAMBDA doc : includes(doc.file_name, query))
  ELSE docs

\* lines 85-90
textStage(docs, query) ==
  IF trim(query) # <<>>
  THEN SelectSeq(docs, LAMBDA doc :
         includes(toLowerCase(doc.file_name), toLowerCase(query)))
  ELSE docs

\* Mutant: the category comparison also runs for 'all'.
categoryStage_always(docs, category) ==
  SelectSeq(docs, LAMBDA doc : doc.document_categories = category)

\* lines 92-97
categoryStage(docs, category) ==
  IF category # "all"
  THEN SelectSeq(docs, LAMBDA doc : doc.document_categories = category)
  ELSE docs

\* Mutant: every status but the selected one is kept.
statusStage_inverted(docs, status) ==
  IF status # "all"
  THEN SelectSeq(docs, LAMBDA doc : doc.status # status)
  ELSE docs

\* lines 99-102
statusStage(docs, status) ==
  IF status # "all"
  THEN SelectSeq(docs, LAMBDA doc : doc.status = status)
  ELSE docs

\* lines 104-118
dateStage(docs, from, to) ==
  IF from # 0 \/ to # 0
  THEN SelectSeq(docs, LAMBDA doc :
         IF from # 0 /\ to # 0 THEN isWithinInterval(doc.created_at, from, to)
         ELSE IF from # 0 THEN doc.created_at >= from
         ELSE IF to # 0 THEN doc.created_at <= to
         ELSE TRUE)
  ELSE docs

\* Mutant: the first match is left out of the result.
applyFilters_dropFirst(docs, query, category, status, from, to) ==
  LET out == dateStage(statusStage(categoryStage(textStage(docs, query),
                                                 category), status), from, to)
  IN IF out = <<>> THEN out ELSE Tail(out)

\* Mutant: the result comes out newest last.
applyFilters_reversed(docs, query, category, status, from, to) ==
  LET out == dateStage(statusStage(categoryStage(textStage(docs, query),
                                                 category), status), from, to)
  IN [k \in 1..Len(out) |-> out[Len(out) + 1 - k]]

\* applyFilters (82-121): the value handed to setFilteredDocuments.
applyFilters(docs, query, category, status, from, to) ==
  dateStage(statusStage(categoryStage(textStage(docs, query), category),
                        status), from, to)

\* isWithinInterval of date-fns v2 throws RangeError('Invalid interval')
\* for start > end; the filter callback runs once per entry that reached
\* the date stage.
raises(docs, query, category, status, from, to, lib) ==
  /\ lib = "v2"
  /\ from # 0 /\ to # 0 /\ from > to
  /\ statusStage(categoryStage(textStage(docs, query), category), status) # <<>>

\* Mutant: the effect does not depend on the collection.
rerun_criteriaOnly(what) ==
  what \in {"searchQuery", "selectedCategory", "selectedStatus",
            "dateFrom", "dateTo"}

\* Dependency list of the applyFilters effect (line 66).
rerun(what) ==
  what \in {"documents", "searchQuery", "selectedCategory", "selectedStatus",
            "dateFrom", "dateTo"}

\* Everything the filter steps leave alone.
filterFrame ==
  <<userRole, pphase, loading, parentDocs, students, created, ver, used, feed,
    channels, dlChannel, hydrations, slMounted, slChannel, slFetching,
    reports, last, clean, lastOp, reviewVars, dateFns,
    uploadVars, roleVars>>

\* The dashboard renders a DocumentList (StudentDashboard 22-62 ends with
\* setLoading(false)): useState of lines 42-51 and the effect of 55-58 take
\* initialDocuments, the criteria start at their defaults, and the effects
\* of the first render are scheduled.
Mount(seed) ==
  /\ ~stale
  /\ documents' = initialize(documents, seed)
  /\ filteredDocuments' = seed
  /\ searchQuery' = <<>>
  /\ selectedCategory' = "all"
  /\ selectedStatus' = "all"
  /\ dateFrom' = 0
  /\ dateTo' = 0
  /\ mounted' = TRUE
  /\ stale' = TRUE
  /\ UNCHANGED filterFrame

\* An INSERT notification whose hydration brought `data` (line 154).
NotifyInsert(data) ==
  /\ mounted
  /\ ~stale
  /\ Len(documents) < MaxDocs
  /\ documents' = applyInsert(documents, data)
  /\ stale' = rerun("documents")
  /\ UNCHANGED <<mounted, filteredDocuments, searchQuery, selectedCategory,
                 selectedStatus, dateFrom, dateTo, filterFrame>>

\* An UPDATE notification whose hydration brought `data` (165-167); map
\* returns a new array also when no entry has the id.
NotifyUpdate(data) ==
  /\ mounted
  /\ ~stale
  /\ documents' = applyUpdate(documents, data)
  /\ stale' = rerun("documents")
  /\ UNCHANGED <<mounted, filteredDocuments, searchQuery, selectedCategory,
                 selectedStatus, dateFrom, dateTo, filterFrame>>

\* A DELETE notification (line 170).
NotifyDelete(i) ==
  /\ mounted
  /\ ~stale
  /\ documents' = applyDelete(documents, i)
  /\ stale' = rerun("documents")
  /\ UNCHANGED <<mounted, filteredDocuments, searchQuery, selectedCategory,
                 selectedStatus, dateFrom, dateTo, filterFrame>>

\* Input onChange (line 274).
SetSearchQuery(q) ==
  /\ mounted
  /\ ~stale
  /\ q # searchQuery
  /\ searchQuery' = q
  /\ stale' = rerun("searchQuery")
  /\ UNCHANGED <<mounted, documents, filteredDocuments, selectedCategory,
                 selectedStatus, dateFrom, dateTo, filterFrame>>

\* Select onValueChange (line 304).
SetSelectedCategory(c) ==
  /\ mounted
  /\ ~stale
  /\ c # selectedCategory
  /\ selectedCategory' = c
  /\ stale' = rerun("selectedCategory")
  /\ UNCHANGED <<mounted, documents, filteredDocuments, searchQuery,
                 selectedStatus, dateFrom, dateTo, filterFrame>>

\* Select onValueChange (line 322).
SetSelectedStatus(s) ==
  /\ mounted
  /\ ~stale
  /\ s # selectedStatus
  /\ selectedStatus' = s
  /\ stale' = rerun("selectedStatus")
  /\ UNCHANGED <<mounted, documents, filteredDocuments, searchQuery,
                 selectedCategory, dateFrom, dateTo, filterFrame>>

\* Calendar onSelect (line 356); selecting the selected day again clears it.
SetDateFrom(d) ==
  /\ mounted
  /\ ~stale
  /\ d # dateFrom
  /\ dateFrom' = d
  /\ stale' = rerun("dateFrom")
  /\ UNCHANGED <<mounted, documents, filteredDocuments, searchQuery,
                 selectedCategory, selectedStatus, dateTo, filterFrame>>

\* Calendar onSelect (line 380).
SetDateTo(d) ==
  /\ mounted
  /\ ~stale
  /\ d # dateTo
  /\ dateTo' = d
  /\ stale' = rerun("dateTo")
  /\ UNCHANGED <<mounted, documents, filteredDocuments, searchQuery,
                 selectedCategory, selectedStatus, dateFrom, filterFrame>>

\* clearFilters (123-129); its button is rendered while hasActiveFilters.
clearFilters ==
  /\ mounted
  /\ ~stale
  /\ \/ searchQuery # <<>> \/ selectedCategory # "all"
     \/ selectedStatus # "all" \/ dateFrom # 0 \/ dateTo # 0
  /\ searchQuery' = <<>>
  /\ selectedCategory' = "all"
  /\ selectedStatus' = "all"
  /\ dateFrom' = 0
  /\ dateTo' = 0
  /\ stale' = (\E what \in {"searchQuery", "selectedCategory",
                          "selectedStatus", "dateFrom", "dateTo"} : rerun(what))
  /\ UNCHANGED <<mounted, documents, filteredDocuments, filterFrame>>

\* The effect of lines 64-66 runs applyFilters with the state of the render
\* that scheduled it; React runs it before it handles the next event, which
\* is why every handler above waits for it.  An error thrown by it is caught by no boundary: React takes the
\* tree down and the list is gone until the page is loaded again.
RunEffect ==
  /\ mounted
  /\ stale
  /\ stale' = FALSE
  /\ IF raises(documents, searchQuery, selectedCategory, selectedStatus,
               dateFrom, dateTo, dateFns)
     THEN /\ mounted' = FALSE
          /\ documents' = <<>>
          /\ filteredDocuments' = <<>>
          /\ searchQuery' = <<>>
          /\ selectedCategory' = "all"
          /\ selectedStatus' = "all"
          /\ dateFrom' = 0
          /\ dateTo' = 0
     ELSE /\ filteredDocuments' =
               applyFilters(documents, searchQuery, selectedCategory,
                            selectedStatus, dateFrom, dateTo)
          /\ UNCHANGED <<mounted, documents, searchQuery, selectedCategory,
                         selectedStatus, dateFrom, dateTo>>
  /\ UNCHANGED filterFrame

InitFilter ==
  /\ userRole = "student"
  /\ SyncIdle
  /\ ReviewIdle
  /\ UploadIdle
  /\ RolesIdle
  /\ filteredDocuments = <<>>
  /\ searchQuery = <<>>
  /\ selectedCategory = "all"
  /\ selectedStatus = "all"
  /\ dateFrom = 0
  /\ dateTo = 0
  /\ stale = FALSE
  /\ dateFns \in {"v3", "v2"}

NextFilter ==
  \/ \E seed \in Seeds(Rows) : Mount(seed)
  \/ \E r \in Rows : NotifyInsert(hydrated(r))
  \/ \E r \in Rows : NotifyUpdate(hydrated(r))
  \/ \E i \in {r.id : r \in Rows} : NotifyDelete(i)
  \/ \E q \in Queries : SetSearchQuery(q)
  \/ \E c \in CategoryNames \cup {"all"} : SetSelectedCategory(c)
  \/ \E s \in Statuses \cup {"all"} : SetSelectedStatus(s)
  \/ \E d \in Dates \cup {0} : SetDateFrom(d)
  \/ \E d \in Dates \cup {0} : SetDateTo(d)
  \/ clearFilters
  \/ RunEffect

SpecFilter == InitFilter /\ [][NextFilter]_vars

\* ======================================================= document upload
\* Mutant: the size of the file is not validated.
uploadSchema_noSize(file, categoryId, description) ==
  /\ file.type \in AllowedTypes
  /\ categoryId # ""
  /\ Len(trim(description)) <= MaxDescriptionLen

\* uploadSchema.parse({file, categoryId, description}) succeeds (27-48).
uploadSchema(file, categoryId, description) ==
  /\ file.size <= MaxFileSize
  /\ file.type \in AllowedTypes
  /\ categoryId # ""
  /\ Len(trim(description)) <= MaxDescriptionLen

\* The early returns of lines 96-104: nothing is set.
onRejected(d) == d

\* catch of a ZodError, then finally setLoading(false).
onSchemaError(d) == [d EXCEPT !.loading = FALSE]

\* catch of uploadError / insertError, then finally.
onUploadFailure(d) == [d EXCEPT !.loading = FALSE]

\* setOpen(false), resetForm(), finally setLoading(false).
onUploadSuccess(d) == ClosedUpload

UpStep(o, toast, complete) ==
  [op |-> o, toast |-> toast, complete |-> complete, dbefore |-> upDialog,
   sbefore |-> storage, rbefore |-> docPaths, signed |-> signedIn]

\* AuthContext: the session ends or starts (signOut, another tab, expiry).
SetSignedIn(b) ==
  /\ signedIn # b
  /\ signedIn' = b
  /\ uplog' = NoUpStep
  /\ UNCHANGED <<upDialog, storage, docPaths, upCall, clock>>
  /\ UNCHANGED <<syncVars, reviewVars, filterVars, roleVars>>

\* Dialog onOpenChange (162): the trigger opens it, Escape, the overlay or
\* Cancel close it; the form state stays as it is.
SetOpen(b) ==
  /\ upDialog.open # b
  /\ upDialog' = [upDialog EXCEPT !.open = b]
  /\ uplog' = NoUpStep
  /\ UNCHANGED <<signedIn, storage, docPaths, upCall, clock>>
  /\ UNCHANGED <<syncVars, reviewVars, filterVars, roleVars>>

\* handleFileChange (85-90), disabled while loading.
SelectFile(f) ==
  /\ upDialog.open /\ ~upDialog.loading
  /\ f # upDialog.file
  /\ upDialog' = [upDialog EXCEPT !.file = f]
  /\ uplog' = NoUpStep
  /\ UNCHANGED <<signedIn, storage, docPaths, upCall, clock>>
  /\ UNCHANGED <<syncVars, reviewVars, filterVars, roleVars>>

\* Select onValueChange={setCategoryId}, disabled while loading.
SelectCategory(c) ==
  /\ upDialog.open /\ ~upDialog.loading
  /\ c # upDialog.categoryId
  /\ upDialog' = [upDialog EXCEPT !.categoryId = c]
  /\ uplog' = NoUpStep
  /\ UNCHANGED <<signedIn, storage, docPaths, upCall, clock>>
  /\ UNCHANGED <<syncVars, reviewVars, filterVars, roleVars>>

\* Textarea onChange, disabled while loading.
TypeDescription(t) ==
  /\ upDialog.open /\ ~upDialog.loading
  /\ t # upDialog.description
  /\ upDialog' = [upDialog EXCEPT !.description = t]
  /\ uplog' = NoUpStep
  /\ UNCHANGED <<signedIn, storage, docPaths, upCall, clock>>
  /\ UNCHANGED <<syncVars, reviewVars, filterVars, roleVars>>

\* handleSubmit (93-153) up to its first await.  The submit button is
\* disabled while loading.
handleSubmit ==
  /\ upDialog.open /\ ~upDialog.loading
  /\ upCall = NoCall
  /\ IF ~signedIn \/ upDialog.file = NoFile
     THEN /\ upDialog' = onRejected(upDialog)
          /\ upCall' = upCall
          /\ uplog' = UpStep("rejected", "error", FALSE)
     ELSE IF ~uploadSchema(upDialog.file, upDialog.categoryId,
                           upDialog.description)
     THEN /\ upDialog' = onSchemaError(upDialog)
          /\ upCall' = upCall
          /\ uplog' = UpStep("rejected", "error", FALSE)
     ELSE /\ upDialog' = [upDialog EXCEPT !.loading = TRUE]
          /\ upCall' = [stage |-> "upload", path |-> clock]
          /\ uplog' = UpStep("issued", "none", FALSE)
  /\ UNCHANGED <<signedIn, storage, docPaths, clock>>
  /\ UNCHANGED <<syncVars, reviewVars, filterVars, roleVars>>

\* storage.from('documents').upload(fileName, file) returns (114-120): the
\* bucket refuses a path that exists; on success the insert is sent.
UploadResolve(ok) ==
  /\ upCall.stage = "upload"
  /\ ok => upCall.path \notin storage
  /\ IF ok
     THEN /\ storage' = storage \cup {upCall.path}
          /\ upCall' = [upCall EXCEPT !.stage = "insert"]
          /\ upDialog' = upDialog
          /\ uplog' = UpStep("stored", "none", FALSE)
     ELSE /\ storage' = storage
          /\ upCall' = NoCall
          /\ upDialog' = onUploadFailure(upDialog)
          /\ uplog' = UpStep("failed", "error", FALSE)
  /\ UNCHANGED <<signedIn, docPaths, clock>>
  /\ UNCHANGED <<syncVars, reviewVars, filterVars, roleVars>>

\* from('documents').insert(...) returns (123-133), then 135-151.
InsertResolve(ok) ==
  /\ upCall.stage = "insert"
  /\ upCall' = NoCall
  /\ IF ok
     THEN /\ docPaths' = docPaths \cup {upCall.path}
          /\ upDialog' = onUploadSuccess(upDialog)
          /\ uplog' = UpStep("uploaded", "success", TRUE)
     ELSE /\ docPaths' = docPaths
          /\ upDialog' = onUploadFailure(upDialog)
          /\ uplog' = UpStep("failed", "error", FALSE)
  /\ UNCHANGED <<signedIn, storage, clock>>
  /\ UNCHANGED <<syncVars, reviewVars, filterVars, roleVars>>

\* Time passes.
TickClock ==
  /\ clock < MaxClock
  /\ clock' = clock + 1
  /\ uplog' = NoUpStep
  /\ UNCHANGED <<signedIn, upDialog, storage, docPaths, upCall>>
  /\ UNCHANGED <<syncVars, reviewVars, filterVars, roleVars>>

InitUpload ==
  /\ userRole = "student"
  /\ SyncIdle
  /\ ReviewIdle
  /\ FilterIdle
  /\ UploadIdle
  /\ RolesIdle

NextUpload ==
  \/ \E b \in BOOLEAN : SetSignedIn(b)
  \/ \E b \in BOOLEAN : SetOpen(b)
  \/ \E f \in Files : SelectFile(f)
  \/ \E c \in CategoryIds : SelectCategory(c)
  \/ \E t \in Descriptions : TypeDescription(t)
  \/ handleSubmit
  \/ \E ok \in BOOLEAN : UploadResolve(ok)
  \/ \E ok \in BOOLEAN : InsertResolve(ok)
  \/ TickClock

SpecUpload == InitUpload /\ [][NextUpload]_vars

\* ============================================================ user roles
\* public.has_role(_user_id, _role) over the rows of user_roles.
has_role(roles, u, r) == RoleRow(u, r) \in roles

RolesOf(roles, u) == {row \in roles : row.user_id = u}

\* Mutant: "Users can insert their own role during signup" is still in
\* force (WITH CHECK (auth.uid() = user_id)).
mayInsert_selfSignup(roles, actor, row) ==
  has_role(roles, actor, "admin") \/ actor = row.user_id

\* Row-level security for INSERT once the fix is applied: the only policy
\* that covers INSERT is "Admins can manage all roles" (FOR ALL).
mayInsert(roles, actor, row) == has_role(roles, actor, "admin")

\* UPDATE and DELETE see the rows the FOR ALL policy's USING admits.
mayModify(roles, actor, row) == has_role(roles, actor, "admin")

\* INSERT INTO user_roles (user_id, role): refused by row-level security,
\* refused by UNIQUE(user_id, role), or done.
insertResult(roles, actor, row) ==
  IF ~mayInsert(roles, actor, row) THEN "denied"
  ELSE IF row \in roles THEN "duplicate"
  ELSE "ok"

insertRole(roles, actor, row) ==
  IF insertResult(roles, actor, row) = "ok" THEN roles \cup {row} ELSE roles

\* UPDATE user_roles SET role = r WHERE user_id = u: the rows the actor may
\* modify are rewritten; two rows of one user collide on UNIQUE.
updateResult(roles, actor, u, r) ==
  LET hit == {row \in RolesOf(roles, u) : mayModify(roles, actor, row)}
  IN  IF Cardinality(hit) > 1
         \/ (hit # {} /\ RoleRow(u, r) \in RolesOf(roles, u) \ hit)
      THEN "duplicate"
      ELSE "ok"

updateRole(roles, actor, u, r) ==
  LET hit == {row \in RolesOf(roles, u) : mayModify(roles, actor, row)}
  IN  IF updateResult(roles, actor, u, r) = "ok" /\ hit # {}
      THEN (roles \ hit) \cup {RoleRow(u, r)}
      ELSE roles

deleteRole(roles, actor, row) ==
  IF mayModify(roles, actor, row) THEN roles \ {row} ELSE roles

\* assign_default_role(): AFTER INSERT ON auth.users, SECURITY DEFINER.
assign_default_role(roles, u) == roles \cup {RoleRow(u, "student")}

RoleStep(o, actor, u, r, res) ==
  [op |-> o, before |-> user_roles, result |-> res, role |-> r, uid |-> u,
   actor |-> actor, admin |-> has_role(user_roles, actor, "admin")]

\* A visitor signs up on the Auth page; the trigger gives the student role.
SignUp(u) ==
  /\ creating = NoCreate
  /\ u \notin authUsers
  /\ authUsers' = authUsers \cup {u}
  /\ user_roles' = assign_default_role(user_roles, u)
  /\ rolelog' = RoleStep("signUp", u, u, "student", "ok")
  /\ UNCHANGED <<creating, users>>
  /\ UNCHANGED <<syncVars, reviewVars, filterVars, uploadVars>>

\* The statements tried against one's own rows and the admin's.
Requests == {<<"insert", "admin">>, <<"insert", "mentor">>,
             <<"update", "admin">>, <<"delete", "admin">>,
             <<"delete", "student">>}

\* An authenticated user who is not an admin sends an INSERT, UPDATE or
\* DELETE on user_roles through the API.
Attempt(actor, cmd, u, r) ==
  /\ actor \in authUsers
  /\ ~has_role(user_roles, actor, "admin")
  /\ u \in authUsers
  /\ user_roles' =
       CASE cmd = "insert" -> insertRole(user_roles, actor, RoleRow(u, r))
         [] cmd = "update" -> updateRole(user_roles, actor, u, r)
         [] cmd = "delete" -> deleteRole(user_roles, actor, RoleRow(u, r))
  /\ rolelog' = RoleStep(cmd, actor, u, r,
       CASE cmd = "insert" -> insertResult(user_roles, actor, RoleRow(u, r))
         [] cmd = "update" -> updateResult(user_roles, actor, u, r)
         [] cmd = "delete" -> "ok")
  /\ UNCHANGED <<authUsers, creating, users>>
  /\ UNCHANGED <<syncVars, reviewVars, filterVars, uploadVars>>

\* handleCreate (81-96): auth.signUp creates the user and the trigger runs.
\* When sign-ups are confirmed automatically signUp returns a session and
\* the client goes on as the new user; otherwise it stays the admin.
handleCreate(u, r, autoConfirm) ==
  /\ creating = NoCreate
  /\ has_role(user_roles, AdminId, "admin")
  /\ u \notin authUsers
  /\ authUsers' = authUsers \cup {u}
  /\ user_roles' = assign_default_role(user_roles, u)
  /\ creating' = [role |-> r, uid |-> u,
                  session |-> IF autoConfirm THEN u ELSE AdminId]
  /\ rolelog' = RoleStep("signedUp", AdminId, u, r, "ok")
  /\ UNCHANGED users
  /\ UNCHANGED <<syncVars, reviewVars, filterVars, uploadVars>>

\* handleCreate (98-131): the insert of the chosen role returns.
CreateInsert ==
  /\ creating # NoCreate
  /\ LET row == RoleRow(creating.uid, creating.role)
         res == insertResult(user_roles, creating.session, row)
     IN  /\ user_roles' = insertRole(user_roles, creating.session, row)
         /\ rolelog' = [RoleStep("handleCreate", creating.session,
                                 creating.uid, creating.role,
                                 IF res = "ok" THEN "success" ELSE "error")
                          EXCEPT !.before = user_roles]
  /\ creating' = NoCreate
  /\ UNCHANGED <<authUsers, users>>
  /\ UNCHANGED <<syncVars, reviewVars, filterVars, uploadVars>>

\* handleEdit (134-181) on a listed user; the edit button is offered for
\* rows whose listed role is not admin (320).
handleEdit(u, r) ==
  /\ creating = NoCreate
  /\ has_role(user_roles, AdminId, "admin")
  /\ \E listed \in users : listed.id = u /\ listed.role # "admin"
  /\ user_roles' = updateRole(user_roles, AdminId, u, r)
  /\ rolelog' = RoleStep("handleEdit", AdminId, u, r,
       IF updateResult(user_roles, AdminId, u, r) = "ok"
       THEN "success" ELSE "error")
  /\ UNCHANGED <<authUsers, creating, users>>
  /\ UNCHANGED <<syncVars, reviewVars, filterVars, uploadVars>>

\* fetchUsers (49-79): every profile with the first role row found for it
\* in the unordered result, 'student' when there is none.
fetchUsers ==
  /\ creating = NoCreate
  /\ has_role(user_roles, AdminId, "admin")
  /\ \E f \in [authUsers -> RoleNames] :
       /\ \A u \in authUsers :
            IF RolesOf(user_roles, u) = {}
            THEN f[u] = "student"
            ELSE RoleRow(u, f[u]) \in user_roles
       /\ users' = {[id |-> u, role |-> f[u]] : u \in authUsers}
  /\ rolelog' = RoleStep("fetchUsers", AdminId, 0, "none", "ok")
  /\ UNCHANGED <<authUsers, user_roles, creating>>
  /\ UNCHANGED <<syncVars, reviewVars, filterVars, uploadVars>>

InitRoles ==
  /\ userRole = "student"
  /\ SyncIdle
  /\ ReviewIdle
  /\ FilterIdle
  /\ UploadIdle
  /\ RolesIdle

NextRoles ==
  \/ \E u \in Uids : SignUp(u)
  \/ \E actor \in Uids, q \in Requests, u \in Uids \cup {AdminId} :
        (u \in {actor, AdminId}) /\ Attempt(actor, q[1], u, q[2])
  \/ \E u \in Uids, r \in {"student", "mentor"}, c \in BOOLEAN :
        handleCreate(u, r, c)
  \/ CreateInsert
  \/ \E u \in Uids, r \in {"student", "mentor"} : handleEdit(u, r)
  \/ fetchUsers

SpecRoles == InitRoles /\ [][NextRoles]_vars

\* ================================================================ claims
RECURSIVE Without(_, _)
\* s with every entry of identity i taken out, the rest in order.
Without(s, i) ==
  IF s = <<>> THEN <<>>
  ELSE IF Head(s).id = i THEN Without(Tail(s), i)
  ELSE <<Head(s)>> \o Without(Tail(s), i)

Hydrated == lastOp.op \in {"INSERT", "UPDATE"} /\ lastOp.data # NoRow

HydrationFailed == lastOp.op \in {"INSERT", "UPDATE"} /\ lastOp.data = NoRow

\* C1: once the handler of the mounted DocumentList has processed all the
\* notifications delivered to it, every hydration having succeeded, the
\* collection holds exactly one entry for each identity whose last
\* notification was an INSERT or UPDATE and none for each identity whose
\* last notification was a DELETE.
C1_ExactlyOneEntryPerIdentity ==
  (mounted /\ clean /\ hydrations = <<>>) =>
    \A i \in Ids :
      /\ last[i] \in {"INSERT", "UPDATE"} => Count(documents, i) = 1
      /\ last[i] = "DELETE" => Count(documents, i) = 0

\* C2: an INSERT applied for an id that is already in the collection leaves
\* the size unchanged and replaces the existing entry where it stands; no
\* two entries ever share an id.
C2_InsertOfExistingIdReplaces ==
  /\ (Hydrated /\ lastOp.op = "INSERT" /\ lastOp.id \in IdsOf(lastOp.before)) =>
       /\ Len(documents) = Len(lastOp.before)
       /\ \A k \in 1..Len(lastOp.before) :
            documents[k] = IF lastOp.before[k].id = lastOp.id
                           THEN lastOp.data ELSE lastOp.before[k]
  /\ \A i \in Ids : Count(documents, i) <= 1

\* C3: an UPDATE applied with a hydrated row replaces the entry of that id
\* at the same index and leaves the length and every other entry as they
\* were; with no entry of that id the collection is unchanged.
C3_UpdateReplacesInPlace ==
  (Hydrated /\ lastOp.op = "UPDATE") =>
    /\ Len(documents) = Len(lastOp.before)
    /\ \A k \in 1..Len(lastOp.before) :
         /\ lastOp.before[k].id = lastOp.id => documents[k] = lastOp.data
         /\ lastOp.before[k].id # lastOp.id => documents[k] = lastOp.before[k]
    /\ lastOp.id \notin IdsOf(lastOp.before) => documents = lastOp.before

\* C3 witness: an UPDATE replaced an entry that was not alone in the list.
C3_Witness ==
  /\ Hydrated /\ lastOp.op = "UPDATE"
  /\ lastOp.id \in IdsOf(lastOp.before)
  /\ IdsOf(lastOp.before) # {lastOp.id}
  /\ documents # lastOp.before

\* C4: a DELETE removes every entry of the given id and keeps the remaining
\* entries in their order; with no entry of that id the collection is
\* unchanged.
C4_DeleteRemovesAllOfId ==
  lastOp.op = "DELETE" =>
    /\ documents = Without(lastOp.before, lastOp.id)
    /\ Count(documents, lastOp.id) = 0
    /\ lastOp.id \notin IdsOf(lastOp.before) => documents = lastOp.before

\* C4 witness: a DELETE removed an entry and left another one behind.
C4_Witness ==
  /\ lastOp.op = "DELETE"
  /\ lastOp.id \in IdsOf(lastOp.before)
  /\ documents # <<>>

\* C5: an INSERT applied for an id that is not in the collection puts the
\* hydrated row first, followed by the previous entries in their order.
C5_InsertPrepends ==
  (Hydrated /\ lastOp.op = "INSERT" /\ lastOp.id \notin IdsOf(lastOp.before)) =>
    /\ Len(documents) = Len(lastOp.before) + 1
    /\ documents[1] = lastOp.data
    /\ \A k \in 1..Len(lastOp.before) : documents[k + 1] = lastOp.before[k]

\* C5 witness: a new id was inserted in front of a non-empty list.
C5_Witness ==
  /\ Hydrated /\ lastOp.op = "INSERT"
  /\ lastOp.id \notin IdsOf(lastOp.before)
  /\ lastOp.before # <<>>

\* C6: when the parent supplies initialDocuments, the local collection is
\* exactly that sequence, whatever had been applied locally before.
C6_InitializeReplacesWholesale ==
  lastOp.op = "initialize" => documents = parentDocs

\* C6 witness: the seed replaced a local collection that differed from it.
C6_Witness ==
  /\ lastOp.op = "initialize"
  /\ lastOp.before # <<>>
  /\ parentDocs # <<>>
  /\ lastOp.before # parentDocs

OwnedChannels(dl, sl) ==
  (IF dl THEN {[handle |-> dlChannel, topic |-> "documents-changes"]} ELSE {})
  \cup
  (IF sl THEN {[handle |-> slChannel, topic |-> "mentor-documents-changes"]}
   ELSE {})

\* C8: every activated list component holds exactly one subscription from
\* activation to deactivation and none afterwards, each its own.
C8_OneSubscriptionPerActiveList ==
  /\ channels = OwnedChannels(mounted, slMounted)
  /\ mounted => dlChannel \in Handles
  /\ slMounted => slChannel \in Handles

\* C8 as amended: DocumentList holds exactly one subscription while mounted;
\* StudentList holds exactly one while mounted with a non-empty students
\* list and none while mounted with an empty one; no component holds one
\* after deactivation, and the registry holds no other channel.
C8_OneSubscriptionUnlessNoStudents ==
  /\ channels = OwnedChannels(mounted, slMounted /\ students)
  /\ mounted => dlChannel \in Handles
  /\ (slMounted /\ students) => slChannel \in Handles
  /\ (slMounted /\ ~students) => slChannel = 0
  /\ ~mounted => dlChannel = 0
  /\ ~slMounted => slChannel = 0

\* C8 witness: a DocumentList instance was activated after an earlier one
\* had been deactivated, and the registry holds its channel alone.
C8_Witness ==
  /\ lastOp.op = "initialize"
  /\ lastOp.before # <<>>
  /\ Cardinality(channels) = 1

\* C9: a hydration fetch that returns no row leaves the collection exactly
\* as it was.
C9_FailedHydrationChangesNothing ==
  HydrationFailed => documents = lastOp.before

\* C9 witness: a hydration failed while the list was mounted and not empty.
C9_Witness ==
  HydrationFailed /\ mounted /\ lastOp.before # <<>>

\* C10: every failed hydration fetch is reported (log or toast).
C10_FailedHydrationReported ==
  HydrationFailed => reports \ {"Error fetching student documents"} # {}

\* C11: hydration has no sequencing safeguard.  Whatever row a hydration
\* select returned is applied when the handler resumes, whichever versions
\* the collection and the table hold by then: an INSERT puts it first, an
\* UPDATE puts it in place of every entry of its id.
C11_NoSequencingSafeguard ==
  Hydrated =>
    IF lastOp.op = "INSERT"
    THEN documents # <<>> /\ documents[1] = lastOp.data
    ELSE \A k \in 1..Len(lastOp.before) :
           lastOp.before[k].id = lastOp.id => documents[k] = lastOp.data

\* C11 witness: for one id, INSERT (N1) then UPDATE (N2) were delivered, the
\* fetch of N2 resolved first and the fetch of N1 last; nothing is in flight
\* or waiting in the feed, and the collection holds the row as N1's fetch
\* saw it while the table holds a newer version.
C11_Witness ==
  /\ mounted /\ clean /\ hydrations = <<>> /\ feed = <<>>
  /\ Hydrated /\ lastOp.op = "INSERT"
  /\ last[lastOp.id] = "UPDATE"
  /\ lastOp.id \in IdsOf(Snapshot)
  /\ \E k \in 1..Len(documents) :
       documents[k].id = lastOp.id /\ documents[k] = lastOp.data
  /\ \A k \in 1..Len(documents) :
       documents[k].id = lastOp.id => documents[k].ver < ver[lastOp.id]

\* -------------------------------------------------------- review claims
\* Every character of t is whitespace (the empty text included).
Blank(t) == \A i \in 1..Len(t) : t[i] \in Whitespace

\* C12: a review only ever takes a document from pending to approved or
\* rejected: the row an update of handleReview lands on is still pending,
\* also when two mentors opened the dialog on the same pending document and
\* both submit.
C12_StatusOnlyLeavesPending ==
  rlast.op = "updated" => rlast.before.status = "pending"

\* C13: handleReview('reject') with empty or whitespace-only feedback, and
\* either action with more than 1000 characters after trimming, sends no
\* update, leaves the row and the typed text as they were, leaves the dialog
\* open and does not call onReviewComplete; such input never gets as far as
\* a request, and a rejected row always carries non-empty feedback.
C13_InvalidReviewChangesNothing ==
  /\ rlast.op = "invalid" =>
       /\ rdoc = rlast.before
       /\ inflight[rlast.who] = NoRequest
       /\ dialog[rlast.who].open
       /\ dialog[rlast.who].feedback = rlast.dbefore.feedback
       /\ ~rlast.complete
  /\ rlast.op = "issued" =>
       /\ ~(rlast.action = "reject" /\ Blank(rlast.dbefore.feedback))
       /\ Len(trim(rlast.dbefore.feedback)) <= MaxFeedbackLen
  /\ rdoc.status = "rejected" =>
       /\ rdoc.feedback # Null
       /\ ~Blank(rdoc.feedback[1])

C13_Witness ==
  /\ rlast.op = "invalid"
  /\ rlast.action = "reject"
  /\ rlast.dbefore.feedback = <<" ", " ">>
  /\ rdoc.status = "rejected"

\* C14: once a review has set reviewed_at, no later operation changes the
\* document's reviewed_at.
C14_ReviewedAtImmutable ==
  (rlast.op = "updated" /\ rlast.before.reviewed_at # 0) =>
    rdoc.reviewed_at = rlast.before.reviewed_at

\* C15: when the update fails, handleReview leaves the dialog open with the
\* typed feedback, does not call onReviewComplete, shows an error toast and
\* sets loading back to false; the row is as it was.
C15_FailedReviewKeepsDialog ==
  rlast.op = "failed" =>
    /\ dialog[rlast.who].open = rlast.dbefore.open
    /\ dialog[rlast.who].feedback = rlast.dbefore.feedback
    /\ ~dialog[rlast.who].loading
    /\ rlast.toast = "error"
    /\ ~rlast.complete
    /\ rdoc = rlast.before

C15_Witness ==
  /\ rlast.op = "failed"
  /\ rlast.dbefore.open
  /\ rlast.dbefore.loading
  /\ rlast.dbefore.feedback = <<" ", "o", "k", " ">>
  /\ dialog[rlast.who].open

\* -------------------------------------------------------- filter claims
\* applyFilters on the current collection and criteria, where it returns.
Out ==
  applyFilters(documents, searchQuery, selectedCategory, selectedStatus,
               dateFrom, dateTo)

Returns ==
  ~raises(documents, searchQuery, selectedCategory, selectedStatus,
          dateFrom, dateTo, dateFns)

Quiescent == mounted /\ ~stale

RECURSIVE IsSubsequence(_, _)
\* a can be obtained from b by leaving entries out.
IsSubsequence(a, b) ==
  IF a = <<>> THEN TRUE
  ELSE IF b = <<>> THEN FALSE
  ELSE IF Head(a) = Head(b) THEN IsSubsequence(Tail(a), Tail(b))
  ELSE IsSubsequence(a, Tail(b))

\* a and b are the same character up to the case of a letter.
SameLetter(a, b) ==
  a = b \/ \E i \in 1..26 : {a, b} = {Uppers[i], Lowers[i]}

\* q occurs in s as a run of characters, the case of letters aside.
OccursIgnoringCase(q, s) ==
  \E i \in 0..(Len(s) - Len(q)) :
    \A j \in 1..Len(q) : SameLetter(q[j], s[i + j])

\* C16: at every quiescent state (no effect pending) reached by mounts,
\* applied notifications and criteria changes, filteredDocuments is
\* applyFilters of the current documents and the current criteria.
C16_FilteredIsApplyFilters ==
  Quiescent => filteredDocuments = Out

C16_Witness ==
  /\ Quiescent
  /\ \E k \in 1..Len(documents) : documents[k].document_categories # "undefined"
  /\ \E k \in 1..Len(documents) : documents[k].document_categories = "undefined"
  /\ selectedStatus # "all"
  /\ filteredDocuments # <<>>
  /\ filteredDocuments # documents

\* C17: applyFilters is idempotent: filtering its output again with the
\* same criteria yields the same sequence.
C17_ApplyFiltersIdempotent ==
  /\ Returns =>
       applyFilters(Out, searchQuery, selectedCategory, selectedStatus,
                    dateFrom, dateTo) = Out
  /\ Quiescent =>
       applyFilters(filteredDocuments, searchQuery, selectedCategory,
                    selectedStatus, dateFrom, dateTo) = filteredDocuments

C17_Witness ==
  /\ Quiescent
  /\ Len(documents) = 2
  /\ Len(filteredDocuments) = 1
  /\ dateFrom # 0 /\ dateTo # 0
  /\ selectedCategory # "all"

\* C18: with the default criteria (empty query, category 'all', status
\* 'all', no date bound) applyFilters returns its input unchanged.
C18_DefaultCriteriaIdentity ==
  /\ applyFilters(documents, <<>>, "all", "all", 0, 0) = documents
  /\ (/\ Quiescent
      /\ searchQuery = <<>> /\ selectedCategory = "all"
      /\ selectedStatus = "all" /\ dateFrom = 0 /\ dateTo = 0)
     => filteredDocuments = documents

C18_Witness ==
  /\ Quiescent
  /\ searchQuery = <<>> /\ selectedCategory = "all"
  /\ selectedStatus = "all" /\ dateFrom = 0 /\ dateTo = 0
  /\ Len(documents) = 2
  /\ documents[1].id = documents[2].id
  /\ filteredDocuments = documents

\* C19: the output of applyFilters is a subsequence of its input: only
\* input entries, none more often than in the input, in the input's order.
C19_OutputIsSubsequence ==
  /\ Returns => IsSubsequence(Out, documents)
  /\ Quiescent => IsSubsequence(filteredDocuments, documents)

C19_Witness ==
  /\ Quiescent
  /\ Len(documents) = 2
  /\ documents[1] # documents[2]
  /\ filteredDocuments = <<documents[2]>>

\* C20: the text predicate keeps a record exactly when the query occurs in
\* its file_name, the case of letters aside, and keeps every record when
\* the query is empty or only whitespace.
C20_TextPredicate ==
  textStage(documents, searchQuery) =
    SelectSeq(documents, LAMBDA doc :
      Blank(searchQuery) \/ OccursIgnoringCase(searchQuery, doc.file_name))

C20_Witness ==
  /\ Quiescent
  /\ searchQuery = <<"r","e","p","o","r","t">>
  /\ selectedCategory = "all" /\ selectedStatus = "all"
  /\ dateFrom = 0 /\ dateTo = 0
  /\ Len(documents) = 2
  /\ documents[1].file_name = <<"l","o","g",".","t","x","t">>
  /\ filteredDocuments = <<documents[2]>>
  /\ documents[2].file_name = <<"R","e","p","o","r","t",".","p","d","f">>

\* The name of the category a record belongs to, under whichever key the
\* select that produced the record delivered it.
CategoryOf(doc) ==
  IF doc.document_categories # "undefined" THEN doc.document_categories
  ELSE doc.category

\* C21: the category predicate keeps every record for 'all' and otherwise
\* exactly the records whose category name is the selected one, for seeded
\* records as well as for hydrated ones.
C21_CategoryPredicate ==
  categoryStage(documents, selectedCategory) =
    SelectSeq(documents, LAMBDA doc :
      selectedCategory = "all" \/ CategoryOf(doc) = selectedCategory)

\* C22: the status predicate keeps every record for 'all' and otherwise
\* exactly the records whose status is the selected one.
C22_StatusPredicate ==
  /\ statusStage(documents, selectedStatus) =
       SelectSeq(documents, LAMBDA doc :
         selectedStatus = "all" \/ doc.status = selectedStatus)
  /\ (/\ Quiescent
      /\ searchQuery = <<>> /\ selectedCategory = "all"
      /\ dateFrom = 0 /\ dateTo = 0 /\ selectedStatus # "all")
     => /\ \A k \in 1..Len(filteredDocuments) :
             filteredDocuments[k].status = selectedStatus
        /\ Len(filteredDocuments) =
             Cardinality({k \in 1..Len(documents) :
                            documents[k].status = selectedStatus})

C22_Witness ==
  /\ Quiescent
  /\ searchQuery = <<>> /\ selectedCategory = "all"
  /\ dateFrom = 0 /\ dateTo = 0
  /\ selectedStatus = "approved"
  /\ Len(documents) = 2
  /\ documents[1].status = "pending"
  /\ documents[2].status = "approved"
  /\ filteredDocuments = <<documents[2]>>

\* C23: the date predicate keeps a record exactly when dateFrom <=
\* created_at <= dateTo (both set), created_at >= dateFrom (only dateFrom),
\* created_at <= dateTo (only dateTo), or no bound is set.
C23_DatePredicate ==
  Returns =>
    dateStage(documents, dateFrom, dateTo) =
      SelectSeq(documents, LAMBDA doc :
        /\ dateFrom # 0 => doc.created_at >= dateFrom
        /\ dateTo # 0 => doc.created_at <= dateTo)

\* C24: applyFilters has no error outcome, also for an inverted date range,
\* and for an inverted range it returns no record outside the intersection
\* of the two bounds (which is empty).
C24_NoErrorOutcome ==
  /\ (mounted /\ stale) => Returns
  /\ (Quiescent /\ dateFrom # 0 /\ dateTo # 0 /\ dateFrom > dateTo)
       => filteredDocuments = <<>>

\* -------------------------------------------------------- upload claims
\* C25: handleSubmit uploads nothing and inserts nothing unless a user is
\* signed in, a file is selected, the file is at most 10 MB, its type is
\* PDF, JPEG or PNG, a category is selected and the trimmed description is
\* at most 500 characters; when a condition is violated the dialog stays
\* open, the form fields are kept and onUploadComplete is not called.
C25_InvalidUploadChangesNothing ==
  /\ uplog.op = "rejected" =>
       /\ storage = uplog.sbefore
       /\ docPaths = uplog.rbefore
       /\ upCall = NoCall
       /\ upDialog.open
       /\ upDialog.file = uplog.dbefore.file
       /\ upDialog.categoryId = uplog.dbefore.categoryId
       /\ upDialog.description = uplog.dbefore.description
       /\ ~uplog.complete
  /\ uplog.op = "issued" =>
       /\ uplog.signed
       /\ uplog.dbefore.file # NoFile
       /\ uplog.dbefore.file.size <= 10 * 1024 * 1024
       /\ uplog.dbefore.file.type \in
            {"application/pdf", "image/jpeg", "image/png", "image/jpg"}
       /\ uplog.dbefore.categoryId # ""
       /\ Len(trim(uplog.dbefore.description)) <= 500
  /\ upCall # NoCall => upDialog.loading

C25_Witness ==
  /\ uplog.op = "rejected"
  /\ uplog.signed
  /\ uplog.dbefore.file.size > MaxFileSize
  /\ uplog.dbefore.file.type = "application/pdf"
  /\ uplog.dbefore.categoryId = "c1"
  /\ storage # {}

\* C27: upload is all-or-nothing: after a completed handleSubmit a file is
\* in the bucket under the generated path if and only if a documents row
\* with that file_path exists.
C27_UploadAllOrNothing ==
  uplog.op \in {"rejected", "failed", "uploaded"} => storage = docPaths

\* ---------------------------------------------------------- role claims
RoleOps == {"handleCreate", "handleEdit", "insert", "signUp", "update",
            "delete", "signedUp"}

\* C26: with the privilege-escalation fix applied, a step of an
\* authenticated user who is not an admin never inserts or changes a
\* user_roles row; every new auth user gets the student row from the
\* trigger; a row with another role comes only from the step of an admin.
C26_NoSelfAssignedRole ==
  /\ (rolelog.op \in {"handleCreate", "insert", "update", "delete"}
      /\ ~rolelog.admin) => user_roles = rolelog.before
  /\ rolelog.op \in {"signUp", "signedUp"} =>
       /\ RoleRow(rolelog.uid, "student") \in user_roles
       /\ user_roles = rolelog.before \cup {RoleRow(rolelog.uid, "student")}
  /\ (rolelog.op \in RoleOps /\ user_roles # rolelog.before
      /\ user_roles # rolelog.before \cup {RoleRow(rolelog.uid, "student")})
       => rolelog.admin

C26_Witness ==
  /\ rolelog.op = "insert"
  /\ ~rolelog.admin
  /\ rolelog.actor = rolelog.uid
  /\ rolelog.role = "admin"
  /\ rolelog.result = "denied"
  /\ user_roles = rolelog.before

\* C28: handleCreate with valid data and role R reports success and leaves
\* the new user with exactly one user_roles row, holding R; after
\* handleCreate or handleEdit the user has exactly one role row.
C28_CreateAssignsExactlyOneRole ==
  /\ rolelog.op = "handleCreate" =>
       /\ rolelog.result = "success"
       /\ RolesOf(user_roles, rolelog.uid) =
            {RoleRow(rolelog.uid, rolelog.role)}
  /\ (rolelog.op = "handleEdit" /\ rolelog.result = "success") =>
       RolesOf(user_roles, rolelog.uid) = {RoleRow(rolelog.uid, rolelog.role)}

\* ----------------------------------------------- late hydrations and stats
\* C29: once a DELETE notification for an id has been applied, no entry
\* with that id is in the collection again unless an INSERT notification
\* for that id is delivered afterwards; a hydration issued for an earlier
\* INSERT or UPDATE and resolving after the delete does not re-add it.
C29_DeletedStaysDeleted ==
  mounted => \A i \in Ids : last[i] = "DELETE" => i \notin IdsOf(documents)

\* C30: on the student dashboard, whenever no fetch is in flight and every
\* notification has been applied, the total shown by the stats cards is the
\* number of entries of the collection DocumentList displays (states in
\* which the list holds an id twice are left aside).
C30_StatsAgreeWithList ==
  (userRole = "student" /\ pphase = "idle" /\ mounted /\ feed = <<>>
   /\ hydrations = <<>> /\ \A i \in Ids : Count(documents, i) <= 1)
    => Len(parentDocs) = Len(documents)

====
